---------------------------- MODULE Spec2Model ----------------------------
(***************************************************************************)
(* A model of the Cicada modem driver core:                                *)
(*   - CircularBuffer<T, BUFFER_SIZE>   (src/src/modules/circularbuffer.h) *)
(*   - SimCommDevice line reader, parsers, emitters and data shovelling    *)
(*     (src/cicada/commdevices/simcommdevice.cpp)                          *)
(*                                                                         *)
(* Specifications:                                                         *)
(*   SpecRing  sequential use of one ring (all six operations)             *)
(*   SpecSPSC  one ring, producer in an ISR, consumer in the main loop     *)
(*   SpecLine  fillLineBuffer() over arbitrary UART input                  *)
(*   SpecDns   parseDnsReply() over synthetic +CDNSGIP lines               *)
(*   Spec      the receive side: announcements, grants, payload, flush     *)
(*   SpecSend  the send side: CIPSEND bursts from the write ring           *)
(*   SpecLock  serialLock()/serialUnlock() and the raw UART access         *)
(*   SpecEmit  the emitters and the room in the transmit queue             *)
(*   SpecData  payload in either direction under run()'s order of calls    *)
(*   SpecReset resetStates() at any point of a session                     *)
(*   SpecGrant sendCiprxget2() over every fill of ring and receive queue   *)
(*   SpecLive  the receive path of SpecData under fairness                 *)
(***************************************************************************)
EXTENDS Integers, Sequences, FiniteSets, TLC

VARIABLES
    ring,           \* the CircularBuffer under test (SpecRing, SpecSPSC)
    expect,         \* ghost: what the ring is expected to hand out next, oldest first
    lastOp,         \* ghost: name of the operation that produced this state
    last,           \* ghost: arguments, result and pre-state of that operation
    pcCons,         \* SpecSPSC: position of the consumer inside pull()
    tmpCons,        \* SpecSPSC: the consumer's register holding _availableData
    nPushed,        \* SpecSPSC ghost: elements pushed so far
    received,       \* SpecSPSC ghost: elements the consumer obtained, in order
    dev,            \* the SimCommDevice members
    serialRx,       \* _serial: bytes received from the modem, not yet read
    serialTx,       \* _serial: bytes written by the engine, not yet sent
    readBuffer,     \* _readBuffer, the application-facing read ring
    writeBuffer,    \* _writeBuffer, the application-facing write ring
    parseLine,      \* run(): fillLineBuffer() yielded a line not yet dispatched
    burst,          \* run(): "prepared" between prepareSending() and sendData()
    modem           \* the modem: owed = payload bytes of the last grant still to be
                    \* sent, unread = bytes it holds and has not granted yet

ringVars == <<ring, expect, pcCons, tmpCons, nPushed, received>>
engineVars == <<dev, serialRx, serialTx, readBuffer, writeBuffer, parseLine, burst, modem>>
vars == <<ring, expect, lastOp, last, pcCons, tmpCons, nPushed, received,
          dev, serialRx, serialTx, readBuffer, writeBuffer, parseLine, burst, modem>>

(***************************************************************************)
(* Bounds of the model                                                     *)
(***************************************************************************)
\* template parameter BUFFER_SIZE of the ring under test
BUFFER_SIZE == 3
\* longest array handed to the bulk push
MaxPushLen == 2
\* number of distinct element values
NumData == 2
\* SpecSPSC: elements the producer pushes in one run
MaxPushed == 4
\* capacity of the line buffer (LINE_MAX_LENGTH of simcommdevice.h)
LINE_MAX_LENGTH == 32
\* SpecLine: UART bytes that may wait unread
MaxPending == 3
\* SpecDns: bytes between "+CDNSGIP: 1" and the line end
MaxDnsTail == 11
\* capacity of the serial driver's receive queue (readBufferSize())
SERIAL_RX_SIZE == 20
\* capacity of the serial driver's transmit queue
SERIAL_TX_SIZE == 24
\* _modemMaxReceiveSize, set by the modem variant
ModemMaxReceiveSize == 2
\* largest byte count the modem announces in one +CIPRXGET: 4 line
MaxAnnounce == 2
\* most bytes the modem holds announced and not yet granted
MaxOutstanding == 2

Data == 1..NumData

\* uint16_t arithmetic
U16 == 2^16
Wrap16(x) == x % U16

Min(a, b) == IF a < b THEN a ELSE b

\* all sequences over S of length 0..n
RECURSIVE SeqsUpTo(_, _)
SeqsUpTo(S, n) ==
    IF n = 0 THEN {<<>>}
    ELSE LET shorter == SeqsUpTo(S, n - 1)
         IN  shorter \cup {Append(s, x) : s \in {t \in shorter : Len(t) = n - 1}, x \in S}

(***************************************************************************)
(* CircularBuffer                                                          *)
(***************************************************************************)
\* constructor: heads and count zero, _buffer() value-initialised
NewRing ==
    [buffer |-> [i \in 0..(BUFFER_SIZE - 1) |-> 0],
     writeHead |-> 0, readHead |-> 0, availableData |-> 0]

incrementOrResetHead(head) ==
    IF Wrap16(head + 1) >= BUFFER_SIZE THEN 0 ELSE Wrap16(head + 1)

availableData(r) == r.availableData

availableSpace(r) == Wrap16(BUFFER_SIZE - r.availableData)

isEmpty(r) == r.availableData = 0

isFull(r) == r.availableData = BUFFER_SIZE

\* the while loop of push(const T*, uint16_t): data[writeCount] for writeCount < size
RECURSIVE pushLoop(_, _, _, _)
pushLoop(r, data, writeCount, size) ==
    IF writeCount < size
    THEN pushLoop([r EXCEPT !.buffer[r.writeHead] = data[writeCount + 1],
                            !.writeHead = incrementOrResetHead(r.writeHead)],
                  data, writeCount + 1, size)
    ELSE r

\* size after the clamp of push(const T*, uint16_t); it is also the return value
pushCount(r, data) ==
    IF Len(data) > availableSpace(r) THEN availableSpace(r) ELSE Len(data)

\* push(const T* data, uint16_t size): the ring afterwards
push(r, data) ==
    LET size == pushCount(r, data)
        w == pushLoop(r, data, 0, size)
    IN  [w EXCEPT !.availableData = Wrap16(w.availableData + size)]

\* push(T data): the ring afterwards
pushOne(r, data) ==
    LET w == [r EXCEPT !.buffer[r.writeHead] = data,
                       !.writeHead = incrementOrResetHead(r.writeHead)]
    IN  IF w.availableData < BUFFER_SIZE
        THEN [w EXCEPT !.availableData = w.availableData + 1]
        ELSE w

\* size after the clamp of pull(T*, uint16_t); it is also the return value
pullCount(r, size) ==
    IF size > availableData(r) THEN availableData(r) ELSE size

\* the while loop of pull(T*, uint16_t): <<ring, data copied out so far>>
RECURSIVE pullLoop(_, _, _)
pullLoop(r, out, size) ==
    IF Len(out) < size
    THEN pullLoop([r EXCEPT !.readHead = incrementOrResetHead(r.readHead)],
                  Append(out, r.buffer[r.readHead]), size)
    ELSE <<r, out>>

\* pull(T* data, uint16_t size): <<ring afterwards, data copied out>>
pull(r, size) ==
    LET n == pullCount(r, size)
        res == pullLoop(r, <<>>, n)
    IN  <<[res[1] EXCEPT !.availableData = Wrap16(res[1].availableData - n)], res[2]>>

\* T pull(): <<ring afterwards, element returned>>
pullOne(r) ==
    LET data == r.buffer[r.readHead]
        w == [r EXCEPT !.readHead = incrementOrResetHead(r.readHead)]
    IN  <<IF w.availableData > 0
          THEN [w EXCEPT !.availableData = w.availableData - 1]
          ELSE w,
          data>>

\* T read()
read(r) == r.buffer[r.readHead]

flush(r) == [r EXCEPT !.writeHead = 0, !.readHead = 0, !.availableData = 0]

\* what the ring will hand out: availableData elements starting at the read head
Contents(r) ==
    [i \in 1..r.availableData |-> r.buffer[(r.readHead + i - 1) % BUFFER_SIZE]]

(***************************************************************************)
(* Bytes.  A character is its ASCII code; Str turns a tuple of one-        *)
(* character strings into the byte sequence of a C string literal.         *)
(***************************************************************************)
Asc ==
    [c \in {"nul"} |-> 0] @@ [c \in {"\n"} |-> 10] @@ [c \in {"\r"} |-> 13] @@
    (" " :> 32) @@ ("\"" :> 34) @@ ("+" :> 43) @@ ("," :> 44) @@ ("." :> 46) @@
    ("0" :> 48) @@ ("1" :> 49) @@ ("2" :> 50) @@ ("3" :> 51) @@ ("4" :> 52) @@
    ("5" :> 53) @@ ("6" :> 54) @@ ("7" :> 55) @@ ("8" :> 56) @@ ("9" :> 57) @@
    (":" :> 58) @@ ("=" :> 61) @@ (">" :> 62) @@
    ("A" :> 65) @@ ("C" :> 67) @@ ("D" :> 68) @@ ("E" :> 69) @@ ("G" :> 71) @@
    ("I" :> 73) @@ ("K" :> 75) @@ ("N" :> 78) @@ ("O" :> 79) @@ ("P" :> 80) @@
    ("R" :> 82) @@ ("S" :> 83) @@ ("T" :> 84) @@ ("X" :> 88) @@
    ("a" :> 97) @@ ("h" :> 104) @@ ("o" :> 111) @@ ("s" :> 115) @@ ("t" :> 116)

Str(t) == [i \in 1..Len(t) |-> Asc[t[i]]]

NUL == Asc["nul"]
LF == Asc["\n"]
GT == Asc[">"]
QUOTE == Asc["\""]

\* strncmp(buf, prefix, strlen(prefix)) == 0, for a prefix without '\0'
StartsWith(buf, prefix) ==
    /\ Len(buf) >= Len(prefix)
    /\ SubSeq(buf, 1, Len(prefix)) = prefix

(***************************************************************************)
(* SimCommDevice                                                           *)
(*                                                                         *)
(* dev.lineBuffer holds _lineBuffer from its first byte to the last byte   *)
(* written since the fill cursor was last at 0 (the trailing '\0'          *)
(* included once the line is complete); the bytes behind it are left over  *)
(* from earlier lines and are never read before they are rewritten,        *)
(* because the parsers run on complete lines only (parseLine).             *)
(***************************************************************************)
\* a reset that rewinds the counters and sub-states and raises LINE_READ
\* without clearing the other flags
ResetDev_KeepsFlags(d) ==
    [d EXCEPT !.lbFill = 0,
              !.sendState = 0,
              !.replyState = 0,
              !.connectState = "notConnected",
              !.bytesToWrite = 0,
              !.bytesToReceive = 0,
              !.bytesToRead = 0,
              !.waitForReply = "NULL",
              !.stateBooleans = d.stateBooleans \cup {"LINE_READ"},
              !.rssi = 99,
              !.idString0 = 0,
              !.idString1 = "noRequest"]

\* the members as resetStates() leaves them; _ip and _lineBuffer are not touched by it
ResetDev(d) ==
    [d EXCEPT !.lbFill = 0,
              !.sendState = 0,
              !.replyState = 0,
              !.connectState = "notConnected",
              !.bytesToWrite = 0,
              !.bytesToReceive = 0,
              !.bytesToRead = 0,
              !.waitForReply = "NULL",
              !.stateBooleans = {"LINE_READ"},
              !.rssi = 99,
              !.idString0 = 0,
              !.idString1 = "noRequest"]

\* the object after construction: the constructor calls resetStates()
NewDev ==
    ResetDev([lineBuffer |-> <<>>, ip |-> <<>>, lbFill |-> 0, sendState |-> 0,
              replyState |-> 0, connectState |-> "notConnected", bytesToWrite |-> 0,
              bytesToReceive |-> 0, bytesToRead |-> 0, waitForReply |-> "NULL",
              stateBooleans |-> {}, rssi |-> 0, idString0 |-> 0,
              idString1 |-> "noRequest"])

\* the condition that ends a line in fillLineBuffer()
\* (LineEnds_NoPrompt: a variant that forgets the '>' prompt)
LineEnds_NoPrompt(c, lbFill) == c = LF \/ lbFill = LINE_MAX_LENGTH
LineEnds(c, lbFill) == c = LF \/ c = GT \/ lbFill = LINE_MAX_LENGTH

\* the while loop of fillLineBuffer(): <<dev, serialRx, return value>>
RECURSIVE fillLoop(_, _)
fillLoop(d, rx) ==
    IF Len(rx) > 0
    THEN LET c == Head(rx)
             d1 == [d EXCEPT !.lineBuffer = Append(SubSeq(d.lineBuffer, 1, d.lbFill), c),
                             !.lbFill = d.lbFill + 1]
         IN  IF LineEnds(c, d1.lbFill)
             THEN <<[d1 EXCEPT !.lineBuffer = Append(d1.lineBuffer, NUL), !.lbFill = 0],
                    Tail(rx), TRUE>>
             ELSE fillLoop(d1, Tail(rx))
    ELSE <<d, rx, FALSE>>

\* bool fillLineBuffer(): <<dev, serialRx, return value>>
fillLineBuffer(d, rx) ==
    IF "LINE_READ" \in d.stateBooleans
    THEN fillLoop(d, rx)
    ELSE <<d, rx, FALSE>>

\* the literals parseDnsReply() compares the line with
DnsOkPrefix == Str(<<"+", "C", "D", "N", "S", "G", "I", "P", ":", " ", "1">>)
DnsFailPrefix == Str(<<"+", "C", "D", "N", "S", "G", "I", "P", ":", " ", "0">>)

\* first loop of parseDnsReply(): count the '"' up to the '\0'; i is the C index
RECURSIVE countQuotes(_, _, _)
countQuotes(buf, i, q) ==
    IF buf[i + 1] # NUL
    THEN countQuotes(buf, i + 1, IF buf[i + 1] = QUOTE THEN q + 1 ELSE q)
    ELSE q

\* the validation of the quote count, TRUE when the line is accepted
\* (QuotesValid_UpTo11: the upper limit off by one)
QuotesValid_UpTo11(q) == ~(q < 4 \/ q > 11)
QuotesValid(q) == ~(q < 4 \/ q > 10)

\* second loop: advance i behind the third '"'
RECURSIVE skipQuotes(_, _, _)
skipQuotes(buf, i, q) ==
    IF q < 3
    THEN skipQuotes(buf, i + 1, IF buf[i + 1] = QUOTE THEN q + 1 ELSE q)
    ELSE i

\* third loop: every '"' from i on becomes '\0'
RECURSIVE blankQuotes(_, _)
blankQuotes(buf, i) ==
    IF buf[i + 1] # NUL
    THEN blankQuotes(IF buf[i + 1] = QUOTE THEN [buf EXCEPT ![i + 1] = NUL] ELSE buf,
                     i + 1)
    ELSE buf

\* the C string that starts at C index i of buf (strcpy's source)
RECURSIVE cString(_, _)
cString(buf, i) ==
    IF buf[i + 1] # NUL THEN <<buf[i + 1]>> \o cString(buf, i + 1) ELSE <<>>

\* the "+CDNSGIP: 1" branch: <<dev, return value>>
dnsResolved(d) ==
    IF ~QuotesValid(countQuotes(d.lineBuffer, 0, 0))
    THEN <<[d EXCEPT !.connectState = "dnsError"], FALSE>>
    ELSE LET i == skipQuotes(d.lineBuffer, 0, 0)
             buf == blankQuotes(d.lineBuffer, i)
         IN  <<[d EXCEPT !.lineBuffer = buf, !.ip = cString(buf, i)], TRUE>>

\* the "+CDNSGIP: 0" branch: <<dev, return value>>
\* (dnsFailed_SetsPhase: a variant that also reports dnsError)
dnsFailed_SetsPhase(d) ==
    <<[d EXCEPT !.connectState = "dnsError",
                !.stateBooleans = d.stateBooleans \cup {"RESET_PENDING"}], FALSE>>
dnsFailed(d) ==
    <<[d EXCEPT !.stateBooleans = d.stateBooleans \cup {"RESET_PENDING"}], FALSE>>

\* bool parseDnsReply(): <<dev, return value>>
parseDnsReply(d) ==
    IF StartsWith(d.lineBuffer, DnsOkPrefix) THEN dnsResolved(d)
    ELSE IF StartsWith(d.lineBuffer, DnsFailPrefix) THEN dnsFailed(d)
    ELSE <<d, FALSE>>

\* the literals of the receive-window parsers
Ciprxget4Prefix ==
    Str(<<"+", "C", "I", "P", "R", "X", "G", "E", "T", ":", " ", "4", ",", "0", ",">>)
Ciprxget2Prefix ==
    Str(<<"+", "C", "I", "P", "R", "X", "G", "E", "T", ":", " ", "2", ",", "0", ",">>)

IsDigit(c) == c >= Asc["0"] /\ c <= Asc["9"]

\* the digits sscanf("%d") converts, from C index i on
RECURSIVE scanDigits(_, _, _)
scanDigits(buf, i, acc) ==
    IF IsDigit(buf[i + 1])
    THEN scanDigits(buf, i + 1, acc * 10 + (buf[i + 1] - Asc["0"]))
    ELSE acc

\* sscanf(buf + i, "%d", &n): the values n may hold afterwards.  Without a
\* digit nothing is stored and n keeps its indeterminate initial value.
scanInt(buf, i) ==
    IF IsDigit(buf[i + 1]) THEN {scanDigits(buf, i, 0)} ELSE 0..MaxAnnounce

\* the numbers a window parser may scan behind its prefix; sscanf() is not
\* reached when the prefix does not match
scanned(buf, prefix) ==
    IF StartsWith(buf, prefix) THEN scanInt(buf, Len(prefix)) ELSE {0}

\* bool parseCiprxget4(), n the number scanned: <<dev, return value>>
parseCiprxget4(d, n) ==
    IF StartsWith(d.lineBuffer, Ciprxget4Prefix)
    THEN <<[d EXCEPT !.bytesToReceive = Wrap16(d.bytesToReceive + n)], TRUE>>
    ELSE <<d, FALSE>>

\* bool parseCiprxget2(), n the number scanned: <<dev, return value>>
\* (parseCiprxget2_KeepsWindow: a variant that leaves bytesToReceive as it is)
parseCiprxget2_KeepsWindow(d, n) ==
    IF StartsWith(d.lineBuffer, Ciprxget2Prefix)
    THEN <<[d EXCEPT !.bytesToRead = Wrap16(d.bytesToRead + n),
                     !.stateBooleans = d.stateBooleans \ {"LINE_READ"}], TRUE>>
    ELSE <<d, FALSE>>
parseCiprxget2(d, n) ==
    IF StartsWith(d.lineBuffer, Ciprxget2Prefix)
    THEN <<[d EXCEPT !.bytesToReceive = Wrap16(d.bytesToReceive - n),
                     !.bytesToRead = Wrap16(d.bytesToRead + n),
                     !.stateBooleans = d.stateBooleans \ {"LINE_READ"}], TRUE>>
    ELSE <<d, FALSE>>

\* the while loop of flushReadBuffer(): <<dev, serialRx>>
RECURSIVE flushLoop(_, _)
flushLoop(d, rx) ==
    IF d.bytesToRead # 0 /\ Len(rx) # 0
    THEN flushLoop([d EXCEPT !.bytesToRead = Wrap16(d.bytesToRead - 1)], Tail(rx))
    ELSE <<d, rx>>

\* the condition under which flushReadBuffer() raises LINE_READ again
\* (flushRaisesLineRead_Always: a variant that raises it unconditionally)
flushRaisesLineRead_Always(d) == TRUE
flushRaisesLineRead(d) == d.bytesToRead = 0

\* void flushReadBuffer(): <<dev, serialRx>>
flushReadBuffer(d, rx) ==
    LET res == flushLoop(d, rx)
        d1 == [res[1] EXCEPT !.bytesToReceive = 0]
    IN  <<IF flushRaisesLineRead(d1)
          THEN [d1 EXCEPT !.stateBooleans = d1.stateBooleans \cup {"LINE_READ"}]
          ELSE d1,
          res[2]>>

\* the while loop of receive(): <<dev, serialRx, readBuffer>>
RECURSIVE receiveLoop(_, _, _)
receiveLoop(d, rx, rb) ==
    IF d.bytesToRead # 0
    THEN receiveLoop([d EXCEPT !.bytesToRead = Wrap16(d.bytesToRead - 1)],
                     Tail(rx), pushOne(rb, Head(rx)))
    ELSE <<d, rx, rb>>

\* a receive() that waits for one byte more than the window
receive_OneMore(d, rx, rb) ==
    IF Len(rx) > d.bytesToRead
    THEN LET res == receiveLoop(d, rx, rb)
         IN  <<[res[1] EXCEPT !.stateBooleans = res[1].stateBooleans \cup {"LINE_READ"}],
               res[2], res[3], TRUE>>
    ELSE <<d, rx, rb, FALSE>>

\* bool receive(): <<dev, serialRx, readBuffer, return value>>
receive(d, rx, rb) ==
    IF Len(rx) >= d.bytesToRead
    THEN LET res == receiveLoop(d, rx, rb)
         IN  <<[res[1] EXCEPT !.stateBooleans = res[1].stateBooleans \cup {"LINE_READ"}],
               res[2], res[3], TRUE>>
    ELSE <<d, rx, rb, FALSE>>

\* the decimal digits printed by "%u"
RECURSIVE toDecimal(_)
toDecimal(n) ==
    IF n < 10 THEN <<Asc["0"] + n>>
    ELSE toDecimal(n \div 10) \o <<Asc["0"] + (n % 10)>>

\* _serial.write(): the bytes are queued as far as the transmit queue has room
serialWrite(tx, bytes) ==
    tx \o SubSeq(bytes, 1, Min(Len(bytes), SERIAL_TX_SIZE - Len(tx)))

\* a request that leaves no slack in the receive queue of the UART
grantSize_NoSlack(d, rx, rb) ==
    LET g0 == Wrap16(SERIAL_RX_SIZE - Len(rx))
        g1 == IF g0 > d.bytesToReceive THEN d.bytesToReceive ELSE g0
        g2 == IF g1 > availableSpace(rb) THEN availableSpace(rb) ELSE g1
    IN  IF g2 > ModemMaxReceiveSize THEN ModemMaxReceiveSize ELSE g2

\* a request that is not clamped to the free space of the read ring
grantSize_IgnoresRing(d, rx, rb) ==
    LET g0 == Wrap16(Wrap16(SERIAL_RX_SIZE - Len(rx)) - 8)
        g1 == IF g0 > d.bytesToReceive THEN d.bytesToReceive ELSE g0
    IN  IF g1 > ModemMaxReceiveSize THEN ModemMaxReceiveSize ELSE g1

\* the size sendCiprxget2() asks for, after its three clamps
grantSize(d, rx, rb) ==
    LET g0 == Wrap16(Wrap16(SERIAL_RX_SIZE - Len(rx)) - 8)
        g1 == IF g0 > d.bytesToReceive THEN d.bytesToReceive ELSE g0
        g2 == IF g1 > availableSpace(rb) THEN availableSpace(rb) ELSE g1
    IN  IF g2 > ModemMaxReceiveSize THEN ModemMaxReceiveSize ELSE g2

\* bool sendCiprxget2(): <<serialTx, return value>>
sendCiprxget2(d, rx, tx, rb) ==
    IF Wrap16(SERIAL_RX_SIZE - Len(rx)) > 8 /\ availableSpace(rb) > 0
    THEN LET str == Str(<<"A", "T", "+", "C", "I", "P", "R", "X", "G", "E", "T",
                          "=", "2", ",", "0", ",">>)
             t1 == serialWrite(tx, str)
             t2 == serialWrite(t1, toDecimal(grantSize(d, rx, rb)))
         IN  <<serialWrite(t2, <<Asc["\r"], LF>>), TRUE>>
    ELSE <<tx, FALSE>>

\* the part of the transmit queue prepareSending() keeps free for framing
MIN_SPACE_AVAILABLE == 22

\* a prepareSending() that announces all the write ring holds
prepareSending_NoClamp(d, tx, wb) ==
    LET space == SERIAL_TX_SIZE - Len(tx)
    IN  IF space < MIN_SPACE_AVAILABLE
        THEN <<d, tx, FALSE>>
        ELSE LET n == availableData(wb)
                 t1 == serialWrite(tx, Str(<<"A", "T", "+", "C", "I", "P", "S", "E",
                                             "N", "D", "=", "0", ",">>))
             IN  <<[d EXCEPT !.bytesToWrite = n, !.waitForReply = ">"],
                   serialWrite(t1, toDecimal(n)), TRUE>>

\* bool prepareSending(): <<dev, serialTx, return value>>
prepareSending(d, tx, wb) ==
    LET space == SERIAL_TX_SIZE - Len(tx)
    IN  IF space < MIN_SPACE_AVAILABLE
        THEN <<d, tx, FALSE>>
        ELSE LET n0 == availableData(wb)
                 n == IF n0 > Wrap16(space - MIN_SPACE_AVAILABLE)
                      THEN Wrap16(space - MIN_SPACE_AVAILABLE) ELSE n0
                 t1 == serialWrite(tx, Str(<<"A", "T", "+", "C", "I", "P", "S", "E",
                                             "N", "D", "=", "0", ",">>))
             IN  <<[d EXCEPT !.bytesToWrite = n, !.waitForReply = ">"],
                   serialWrite(t1, toDecimal(n)), TRUE>>

\* void sendData(), while (_bytesToWrite--): the test reads the counter and
\* the decrement follows it, also when the test fails: <<dev, serialTx, writeBuffer>>
RECURSIVE sendData(_, _, _)
sendData(d, tx, wb) ==
    LET d1 == [d EXCEPT !.bytesToWrite = Wrap16(d.bytesToWrite - 1)]
    IN  IF d.bytesToWrite # 0
        THEN sendData(d1, serialWrite(tx, <<pullOne(wb)[2]>>), pullOne(wb)[1])
        ELSE <<d1, tx, wb>>

\* the modem: payload bytes still owed for the last grant, and the received
\* bytes it holds and has not granted
NoModem == [owed |-> 0, unread |-> 0]

RingIdle ==
    /\ ring = NewRing
    /\ expect = <<>>
    /\ pcCons = "idle"
    /\ tmpCons = 0
    /\ nPushed = 0
    /\ received = <<>>

EngineIdle ==
    /\ dev = NewDev
    /\ serialRx = <<>>
    /\ serialTx = <<>>
    /\ readBuffer = NewRing
    /\ writeBuffer = NewRing
    /\ parseLine = FALSE
    /\ burst = "idle"
    /\ modem = NoModem

(***************************************************************************)
(* SpecRing: one caller uses the ring sequentially.  pull() and read() are *)
(* called on a non-empty ring only (the caller guards with isEmpty()).     *)
(* expect follows the bulk operations; every other operation re-reads it   *)
(* from the ring, so it is "whatever is stored" when a bulk run starts.    *)
(***************************************************************************)
InitRing ==
    /\ RingIdle
    /\ EngineIdle
    /\ lastOp = "init"
    /\ last = [pre |-> NewRing]

RingPush(data) ==
    /\ ring' = push(ring, data)
    /\ expect' = expect \o SubSeq(data, 1, pushCount(ring, data))
    /\ lastOp' = "push"
    /\ last' = [pre |-> ring, data |-> data, ret |-> pushCount(ring, data)]
    /\ UNCHANGED <<pcCons, tmpCons, nPushed, received, engineVars>>

RingPushOne(x) ==
    /\ ring' = pushOne(ring, x)
    /\ expect' = Contents(ring')
    /\ lastOp' = "pushOne"
    /\ last' = [pre |-> ring, data |-> x]
    /\ UNCHANGED <<pcCons, tmpCons, nPushed, received, engineVars>>

RingPull(size) ==
    LET res == pull(ring, size)
    IN  /\ ring' = res[1]
        /\ expect' = SubSeq(expect, Len(res[2]) + 1, Len(expect))
        /\ lastOp' = "pull"
        /\ last' = [pre |-> ring, size |-> size, ret |-> Len(res[2]),
                    out |-> res[2], expect |-> expect]
        /\ UNCHANGED <<pcCons, tmpCons, nPushed, received, engineVars>>

RingPullOne ==
    /\ ~isEmpty(ring)
    /\ ring' = pullOne(ring)[1]
    /\ expect' = Contents(ring')
    /\ lastOp' = "pullOne"
    /\ last' = [pre |-> ring, ret |-> pullOne(ring)[2]]
    /\ UNCHANGED <<pcCons, tmpCons, nPushed, received, engineVars>>

RingRead ==
    /\ ~isEmpty(ring)
    /\ lastOp' = "read"
    /\ last' = [pre |-> ring, ret |-> read(ring)]
    /\ UNCHANGED <<ringVars, engineVars>>

RingFlush ==
    /\ ring' = flush(ring)
    /\ expect' = <<>>
    /\ lastOp' = "flush"
    /\ last' = [pre |-> ring]
    /\ UNCHANGED <<pcCons, tmpCons, nPushed, received, engineVars>>

NextRing ==
    \/ \E data \in SeqsUpTo(Data, MaxPushLen) : RingPush(data)
    \/ \E x \in Data : RingPushOne(x)
    \/ \E size \in 0..BUFFER_SIZE : RingPull(size)
    \/ RingPullOne
    \/ RingRead
    \/ RingFlush

SpecRing == InitRing /\ [][NextRing]_vars

(***************************************************************************)
(* Claims about the ring under sequential use                              *)
(***************************************************************************)
\* C1 (ring byte-stream law): a bulk pull hands out, in order, what was stored
\* when the run of bulk pushes began followed by the elements those pushes
\* accepted: it returns min(size, number expected) elements and they are the
\* head of the expected stream.
C1_ByteStreamLaw ==
    lastOp = "pull" =>
        /\ last.ret = Min(last.size, Len(last.expect))
        /\ last.out = SubSeq(last.expect, 1, last.ret)

\* C2 (ring overwrite law): push(x) on a full ring advances the read head by
\* one, keeps availableData = N, and leaves the ring holding the previous
\* contents without their oldest element, followed by x.
C2_OverwriteLaw ==
    (lastOp = "pushOne" /\ isFull(last.pre)) =>
        /\ ring.readHead = incrementOrResetHead(last.pre.readHead)
        /\ ring.availableData = BUFFER_SIZE
        /\ Contents(ring) = Tail(Contents(last.pre)) \o <<last.data>>

\* C3 (bulk push never overwrites): push(data, size) returns
\* min(size, availableSpace()), keeps availableData <= N, leaves every element
\* that was stored and not yet pulled in place, and on a full ring returns 0
\* and changes nothing.
C3_BulkPushClamped ==
    lastOp = "push" =>
        /\ last.ret = Min(Len(last.data), BUFFER_SIZE - last.pre.availableData)
        /\ ring.availableData <= BUFFER_SIZE
        /\ \A i \in 0..(last.pre.availableData - 1) :
              ring.buffer[(last.pre.readHead + i) % BUFFER_SIZE]
                  = last.pre.buffer[(last.pre.readHead + i) % BUFFER_SIZE]
        /\ isFull(last.pre) => (last.ret = 0 /\ ring = last.pre)

(***************************************************************************)
(* SpecSPSC: the producer is an interrupt handler calling push(T), the     *)
(* consumer is the main loop calling pull().  No critical section is       *)
(* used.  On a uniprocessor the handler runs to completion between two     *)
(* instructions of the main loop, so push(T) is one step here, while       *)
(* pull() is split at its accesses to the volatile members:                *)
(*   idle  -> caller's guard, a load of _availableData                     *)
(*   copy  -> data = _buffer[_readHead]; incrementOrResetHead(_readHead)   *)
(*   test  -> if (_availableData > 0), a load                              *)
(*   load  -> _availableData--, the load                                   *)
(*   store -> _availableData--, the store                                  *)
(* The producer pushes 1, 2, 3, ... and only while it sees free space, so  *)
(* the overwriting branch of push(T) is never taken.                       *)
(***************************************************************************)
InitSPSC ==
    /\ RingIdle
    /\ EngineIdle
    /\ lastOp = "init"
    /\ last = [pre |-> NewRing]

IsrPush ==
    /\ nPushed < MaxPushed
    /\ ~isFull(ring)
    /\ ring' = pushOne(ring, nPushed + 1)
    /\ nPushed' = nPushed + 1
    /\ lastOp' = "isrPush"
    /\ UNCHANGED <<expect, last, pcCons, tmpCons, received, engineVars>>

ConsGuard ==
    /\ pcCons = "idle"
    /\ ~isEmpty(ring)
    /\ pcCons' = "copy"
    /\ lastOp' = "pullOne"
    /\ UNCHANGED <<ring, expect, last, tmpCons, nPushed, received, engineVars>>

ConsCopy ==
    /\ pcCons = "copy"
    /\ received' = Append(received, ring.buffer[ring.readHead])
    /\ ring' = [ring EXCEPT !.readHead = incrementOrResetHead(ring.readHead)]
    /\ pcCons' = "test"
    /\ lastOp' = "pullOne"
    /\ UNCHANGED <<expect, last, tmpCons, nPushed, engineVars>>

ConsTest ==
    /\ pcCons = "test"
    /\ pcCons' = IF ring.availableData > 0 THEN "load" ELSE "idle"
    /\ lastOp' = "pullOne"
    /\ UNCHANGED <<ring, expect, last, tmpCons, nPushed, received, engineVars>>

ConsLoad ==
    /\ pcCons = "load"
    /\ tmpCons' = ring.availableData
    /\ pcCons' = "store"
    /\ lastOp' = "pullOne"
    /\ UNCHANGED <<ring, expect, last, nPushed, received, engineVars>>

ConsStore ==
    /\ pcCons = "store"
    /\ ring' = [ring EXCEPT !.availableData = Wrap16(tmpCons - 1)]
    /\ pcCons' = "idle"
    /\ lastOp' = "pullOne"
    /\ UNCHANGED <<expect, last, tmpCons, nPushed, received, engineVars>>

NextSPSC ==
    \/ IsrPush
    \/ ConsGuard
    \/ ConsCopy
    \/ ConsTest
    \/ ConsLoad
    \/ ConsStore

SpecSPSC == InitSPSC /\ [][NextSPSC]_vars

\* C4 (SPSC safety): whenever the consumer is between two pull() calls,
\* availableData is the number of elements pushed minus the number pulled,
\* and the consumer has received 1, 2, 3, ... in order, none lost or repeated.
C4_SpscCoherent ==
    pcCons = "idle" =>
        /\ ring.availableData = nPushed - Len(received)
        /\ \A i \in 1..Len(received) : received[i] = i

(***************************************************************************)
(* SpecLine: fillLineBuffer() against every UART input over a newline, a   *)
(* prompt and an ordinary character, arriving in any chunking.  LINE_READ  *)
(* is set or clear from the start; both occur in the engine (Spec).        *)
(***************************************************************************)
LineBytes == {LF, GT, Asc["a"]}

InitLine ==
    /\ RingIdle
    /\ \E lineRead \in BOOLEAN :
          dev = [NewDev EXCEPT !.stateBooleans =
                                   IF lineRead THEN {"LINE_READ"} ELSE {}]
    /\ serialRx = <<>>
    /\ serialTx = <<>>
    /\ readBuffer = NewRing
    /\ writeBuffer = NewRing
    /\ parseLine = FALSE
    /\ burst = "idle"
    /\ modem = NoModem
    /\ lastOp = "init"
    /\ last = [pre |-> NewDev]

\* the UART interrupt queues one received byte
UartRx(c) ==
    /\ Len(serialRx) < MaxPending
    /\ serialRx' = Append(serialRx, c)
    /\ lastOp' = "uartRx"
    /\ last' = [pre |-> dev]
    /\ UNCHANGED <<ringVars, dev, serialTx, readBuffer, writeBuffer, parseLine, burst, modem>>

FillLineBuffer ==
    LET res == fillLineBuffer(dev, serialRx)
    IN  /\ dev' = res[1]
        /\ serialRx' = res[2]
        /\ parseLine' = res[3]
        /\ lastOp' = "fillLineBuffer"
        /\ last' = [pre |-> dev, preRx |-> serialRx, ret |-> res[3]]
        /\ UNCHANGED <<ringVars, serialTx, readBuffer, writeBuffer, burst, modem>>

NextLine ==
    \/ \E c \in LineBytes : UartRx(c)
    \/ FillLineBuffer

SpecLine == InitLine /\ [][NextLine]_vars

\* the bytes the last fillLineBuffer() call took from the UART
Consumed == SubSeq(last.preRx, 1, Len(last.preRx) - Len(serialRx))

\* the partial line the call started with
Partial == SubSeq(last.pre.lineBuffer, 1, last.pre.lbFill)

IsTerminator(c) == c = LF \/ c = GT

\* C5 (line terminator law): a call made with LINE_READ clear consumes
\* nothing, changes nothing and returns false.  A call made with LINE_READ
\* set consumes a prefix of the UART queue; it returns true exactly when the
\* last byte it consumed is '\n' or '>' or brought the cursor to
\* LINE_MAX_LENGTH, and no earlier byte of the line did; the line is then the
\* partial line plus the consumed bytes plus '\0', the cursor is 0 and no byte
\* before the last is a terminator.  When it returns false it has drained the
\* queue and kept partial line plus consumed bytes under the advanced cursor.
C5_LineTerminatorLaw ==
    lastOp = "fillLineBuffer" =>
        LET n == Len(Consumed)
            line == Partial \o Consumed
        IN  /\ last.preRx = Consumed \o serialRx
            /\ "LINE_READ" \notin last.pre.stateBooleans =>
                  (n = 0 /\ ~last.ret /\ dev = last.pre)
            /\ "LINE_READ" \in last.pre.stateBooleans =>
                  /\ last.ret <=>
                        (n > 0 /\ (IsTerminator(Consumed[n]) \/ Len(line) = LINE_MAX_LENGTH))
                  /\ \A i \in 1..(Len(line) - 1) :
                        ~IsTerminator(line[i]) /\ i < LINE_MAX_LENGTH
                  /\ last.ret =>
                        (dev.lineBuffer = Append(line, NUL) /\ dev.lbFill = 0)
                  /\ ~last.ret =>
                        /\ serialRx = <<>>
                        /\ dev.lbFill = Len(line)
                        /\ SubSeq(dev.lineBuffer, 1, dev.lbFill) = line
            /\ dev.stateBooleans = last.pre.stateBooleans

\* C5 witness: a line that was assembled over more than one call ends at the
\* length cap without a terminator, while bytes are still waiting.
C5_Witness ==
    /\ lastOp = "fillLineBuffer"
    /\ last.ret
    /\ last.pre.lbFill > 0
    /\ Len(dev.lineBuffer) = LINE_MAX_LENGTH + 1
    /\ ~IsTerminator(dev.lineBuffer[LINE_MAX_LENGTH])
    /\ serialRx # <<>>

(***************************************************************************)
(* SpecDns: parseDnsReply() on one complete line.  The lines are           *)
(* "+CDNSGIP: 1" followed by every mix of up to MaxDnsTail quotes and      *)
(* digits, the canonical success line, and two failure lines; each ends in *)
(* "\r\n" and the '\0' that fillLineBuffer() appends.                       *)
(***************************************************************************)
CrLfNul == <<Asc["\r"], LF, NUL>>

CanonicalDnsLine ==
    Str(<<"+", "C", "D", "N", "S", "G", "I", "P", ":", " ", "1", ",",
          "\"", "h", "o", "s", "t", "\"", ",",
          "\"", "1", ".", "2", ".", "3", ".", "4", "\"">>) \o CrLfNul

DnsLines ==
    {DnsOkPrefix \o tail \o CrLfNul : tail \in SeqsUpTo({QUOTE, Asc["7"]}, MaxDnsTail)}
    \cup {CanonicalDnsLine}
    \cup {DnsFailPrefix \o Str(<<",", "8">>) \o CrLfNul, DnsFailPrefix \o CrLfNul}

InitDns ==
    /\ RingIdle
    /\ \E l \in DnsLines, phase \in {"intermediate", "dnsError"},
          addr \in {<<>>, Str(<<"9">>)} :
          dev = [NewDev EXCEPT !.lineBuffer = l, !.connectState = phase, !.ip = addr]
    /\ serialRx = <<>>
    /\ serialTx = <<>>
    /\ readBuffer = NewRing
    /\ writeBuffer = NewRing
    /\ parseLine = TRUE
    /\ burst = "idle"
    /\ modem = NoModem
    /\ lastOp = "init"
    /\ last = [pre |-> NewDev]

\* run() hands the line just read to parseDnsReply()
ParseDnsReply ==
    /\ parseLine
    /\ dev' = parseDnsReply(dev)[1]
    /\ parseLine' = ~parseDnsReply(dev)[2]
    /\ lastOp' = "parseDnsReply"
    /\ last' = [pre |-> dev, ret |-> parseDnsReply(dev)[2]]
    /\ UNCHANGED <<ringVars, serialRx, serialTx, readBuffer, writeBuffer, burst, modem>>

NextDns == ParseDnsReply

SpecDns == InitDns /\ [][NextDns]_vars

\* positions of the double quotes of a line, and the n-th of them
QuotePositions(line) == {i \in 1..Len(line) : line[i] = QUOTE}

NthQuote(line, n) ==
    CHOOSE i \in QuotePositions(line) :
        Cardinality({j \in QuotePositions(line) : j <= i}) = n

\* C6 (DNS quote validator): on a line beginning "+CDNSGIP: 1", a quote count
\* outside 4..10 gives phase dnsError, return value false and an unchanged IP
\* field; a count inside 4..10 gives return value true, an unchanged phase and
\* the IP field equal to the text between the third and the fourth quote,
\* which is 1.2.3.4 for the canonical line.
C6_DnsQuoteValidator ==
    (lastOp = "parseDnsReply" /\ StartsWith(last.pre.lineBuffer, DnsOkPrefix)) =>
        LET line == last.pre.lineBuffer
            q == Cardinality(QuotePositions(line))
        IN  /\ q \notin 4..10 =>
                  /\ dev.connectState = "dnsError"
                  /\ ~last.ret
                  /\ dev.ip = last.pre.ip
            /\ q \in 4..10 =>
                  /\ last.ret
                  /\ dev.connectState = last.pre.connectState
                  /\ dev.ip = SubSeq(line, NthQuote(line, 3) + 1, NthQuote(line, 4) - 1)
            /\ line = CanonicalDnsLine =>
                  dev.ip = Str(<<"1", ".", "2", ".", "3", ".", "4">>)

\* C6 witness: a line with eleven quotes turned the phase into dnsError.
C6_Witness ==
    /\ lastOp = "parseDnsReply"
    /\ StartsWith(last.pre.lineBuffer, DnsOkPrefix)
    /\ Cardinality(QuotePositions(last.pre.lineBuffer)) = 11
    /\ last.pre.connectState # "dnsError"
    /\ dev.connectState = "dnsError"

\* C7 as claimed (DNS failure): a line beginning "+CDNSGIP: 0" leaves the
\* phase at dnsError and RESET_PENDING set.
C7_DnsFailureAsClaimed ==
    (lastOp = "parseDnsReply" /\ StartsWith(last.pre.lineBuffer, DnsFailPrefix)) =>
        /\ dev.connectState = "dnsError"
        /\ "RESET_PENDING" \in dev.stateBooleans

\* C7 as amended: a line beginning "+CDNSGIP: 0" sets RESET_PENDING and nothing
\* else: parseDnsReply() returns false and leaves the phase, the other flags,
\* the IP field and every counter as they were.
C7_DnsFailureSetsResetOnly ==
    (lastOp = "parseDnsReply" /\ StartsWith(last.pre.lineBuffer, DnsFailPrefix)) =>
        /\ ~last.ret
        /\ dev = [last.pre EXCEPT
                     !.stateBooleans = last.pre.stateBooleans \cup {"RESET_PENDING"}]

\* C7 witness: the line "+CDNSGIP: 0,8" was parsed in a phase other than
\* dnsError, which is still the phase, and RESET_PENDING is now set.
C7_Witness ==
    /\ lastOp = "parseDnsReply"
    /\ last.pre.lineBuffer = DnsFailPrefix \o Str(<<",", "8">>) \o CrLfNul
    /\ "RESET_PENDING" \notin last.pre.stateBooleans
    /\ "RESET_PENDING" \in dev.stateBooleans
    /\ dev.connectState = "intermediate"

(***************************************************************************)
(* Spec: the receive side of the engine.  The operations of SimCommDevice  *)
(* are called in any order, with the two restrictions run() imposes: a     *)
(* parser sees a line only after fillLineBuffer() has yielded it, and the  *)
(* next line is read once a parser has accepted the last.  The modem       *)
(* announces the bytes it holds, answers an AT+CIPRXGET=2 request with a   *)
(* grant of at most the size asked and at most what it holds, followed by  *)
(* that many payload bytes, and sends nothing else while payload is owed.  *)
(* A payload byte is '\n', the byte a line reader would take for the end   *)
(* of a line.  A reset of the engine comes with a reset of the modem.      *)
(* The operations record their name in lastOp and leave last alone.        *)
(***************************************************************************)
PayloadBytes == {LF}

CrLf == <<Asc["\r"], LF>>

AnnounceLine(n) == Ciprxget4Prefix \o toDecimal(n) \o CrLf

GrantLine(n) == Ciprxget2Prefix \o toDecimal(n) \o CrLf

\* the size the engine asks for in the AT+CIPRXGET=2,0,<g> command it queued
RequestSize(tx) == scanDigits(Append(tx, NUL), 16, 0)

Init ==
    /\ RingIdle
    /\ EngineIdle
    /\ lastOp = "init"
    /\ last = [pre |-> NewDev]

ResetStates ==
    /\ dev' = ResetDev(dev)
    /\ serialRx' = <<>>
    /\ readBuffer' = flush(readBuffer)
    /\ writeBuffer' = flush(writeBuffer)
    /\ parseLine' = FALSE
    /\ burst' = "idle"
    /\ modem' = NoModem
    /\ lastOp' = "resetStates"
    /\ UNCHANGED <<ringVars, serialTx, last>>

\* the modem reports n more unread bytes: "+CIPRXGET: 4,0,<n>\r\n"
ModemAnnounce(n) ==
    /\ modem.owed = 0
    /\ modem.unread + n <= MaxOutstanding
    /\ Len(serialRx) + Len(AnnounceLine(n)) <= SERIAL_RX_SIZE
    /\ serialRx' = serialRx \o AnnounceLine(n)
    /\ modem' = [modem EXCEPT !.unread = modem.unread + n]
    /\ lastOp' = "environment"
    /\ UNCHANGED <<ringVars, dev, serialTx, readBuffer, writeBuffer, parseLine, burst, last>>

\* the request leaves the transmit queue and the modem answers it:
\* "+CIPRXGET: 2,0,<n>\r\n", payload follows
ModemGrant(n) ==
    /\ modem.owed = 0
    /\ serialTx # <<>>
    /\ n <= RequestSize(serialTx)
    /\ n <= modem.unread
    /\ Len(serialRx) + Len(GrantLine(n)) <= SERIAL_RX_SIZE
    /\ serialRx' = serialRx \o GrantLine(n)
    /\ serialTx' = <<>>
    /\ modem' = [modem EXCEPT !.owed = n, !.unread = modem.unread - n]
    /\ lastOp' = "environment"
    /\ UNCHANGED <<ringVars, dev, readBuffer, writeBuffer, parseLine, burst, last>>

\* one payload byte of the grant arrives
ModemPayload(b) ==
    /\ modem.owed > 0
    /\ Len(serialRx) < SERIAL_RX_SIZE
    /\ serialRx' = Append(serialRx, b)
    /\ modem' = [modem EXCEPT !.owed = modem.owed - 1]
    /\ lastOp' = "environment"
    /\ UNCHANGED <<ringVars, dev, serialTx, readBuffer, writeBuffer, parseLine, burst, last>>

\* run() reads the next line once the last one has been accepted
ReadLine ==
    LET res == fillLineBuffer(dev, serialRx)
    IN  /\ ~parseLine
        /\ dev' = res[1]
        /\ serialRx' = res[2]
        /\ parseLine' = res[3]
        /\ lastOp' = "fillLineBuffer"
        /\ UNCHANGED <<ringVars, serialTx, readBuffer, writeBuffer, burst, modem, last>>

ParseCiprxget4 ==
    /\ parseLine
    /\ \E n \in scanned(dev.lineBuffer, Ciprxget4Prefix) :
          /\ dev' = parseCiprxget4(dev, n)[1]
          /\ parseLine' = ~parseCiprxget4(dev, n)[2]
    /\ lastOp' = "parseCiprxget4"
    /\ UNCHANGED <<ringVars, serialRx, serialTx, readBuffer, writeBuffer, burst, modem, last>>

ParseCiprxget2 ==
    /\ parseLine
    /\ \E n \in scanned(dev.lineBuffer, Ciprxget2Prefix) :
          /\ dev' = parseCiprxget2(dev, n)[1]
          /\ parseLine' = ~parseCiprxget2(dev, n)[2]
    /\ lastOp' = "parseCiprxget2"
    /\ UNCHANGED <<ringVars, serialRx, serialTx, readBuffer, writeBuffer, burst, modem, last>>

FlushReadBuffer ==
    /\ dev' = flushReadBuffer(dev, serialRx)[1]
    /\ serialRx' = flushReadBuffer(dev, serialRx)[2]
    /\ lastOp' = "flushReadBuffer"
    /\ UNCHANGED <<ringVars, serialTx, readBuffer, writeBuffer, parseLine, burst, modem, last>>

Receive ==
    LET res == receive(dev, serialRx, readBuffer)
    IN  /\ dev' = res[1]
        /\ serialRx' = res[2]
        /\ readBuffer' = res[3]
        /\ lastOp' = "receive"
        /\ UNCHANGED <<ringVars, serialTx, writeBuffer, parseLine, burst, modem, last>>

\* one request is queued at a time: the next follows when the last has left
SendCiprxget2 ==
    /\ serialTx = <<>>
    /\ serialTx' = sendCiprxget2(dev, serialRx, serialTx, readBuffer)[1]
    /\ lastOp' = "sendCiprxget2"
    /\ UNCHANGED <<ringVars, dev, serialRx, readBuffer, writeBuffer, parseLine, burst,
                   modem, last>>

\* the application reads from the read ring
AppRead(size) ==
    /\ readBuffer' = pull(readBuffer, size)[1]
    /\ lastOp' = "environment"
    /\ UNCHANGED <<ringVars, dev, serialRx, serialTx, writeBuffer, parseLine, burst,
                   modem, last>>

Next ==
    \/ ResetStates
    \/ \E n \in 1..MaxAnnounce : ModemAnnounce(n)
    \/ \E n \in 0..ModemMaxReceiveSize : ModemGrant(n)
    \/ \E b \in PayloadBytes : ModemPayload(b)
    \/ ReadLine
    \/ ParseCiprxget4
    \/ ParseCiprxget2
    \/ FlushReadBuffer
    \/ Receive
    \/ SendCiprxget2
    \/ AppRead(BUFFER_SIZE)

Spec == Init /\ [][Next]_vars

Sum(d) == d.bytesToReceive + d.bytesToRead

\* the UART bytes the step took from the receive queue
Taken == Len(serialRx) - Len(serialRx')

\* the bytes receive() moved from the UART into the application's read ring
Delivered == IF lastOp' = "receive" THEN Taken ELSE 0

\* the four engine steps of the receive accounting
AccountingSteps == {"parseCiprxget4", "parseCiprxget2", "receive", "flushReadBuffer"}

\* C8 as claimed (receive accounting): over the steps parseCiprxget4,
\* parseCiprxget2, receive and flushReadBuffer the sum bytesToReceive +
\* bytesToRead never decreases except by the bytes the step delivers to the
\* read ring.
C8_SumDropsOnlyByDelivery ==
    [][lastOp' \in AccountingSteps =>
          Sum(dev') >= Sum(dev) - Delivered]_vars

\* C8 as amended: modulo 2^16, an accepted announcement of N adds N to
\* bytesToReceive; an accepted grant of N moves N from bytesToReceive to
\* bytesToRead, so the sum is kept; a rejected line changes nothing;
\* receive() leaves bytesToReceive alone and lowers bytesToRead by exactly the
\* bytes it takes from the UART, each of which it pushes into the read ring.
\* flushReadBuffer() is the exception: it sets bytesToReceive to zero and
\* lowers bytesToRead by every UART byte it takes, and delivers none of them.
C8_ReceiveAccounting ==
    [][/\ lastOp' = "parseCiprxget4" =>
             /\ dev'.bytesToRead = dev.bytesToRead
             /\ \/ /\ ~parseLine'
                   /\ \E n \in 0..MaxOutstanding :
                         /\ dev.lineBuffer = Append(AnnounceLine(n), NUL)
                         /\ dev'.bytesToReceive = Wrap16(dev.bytesToReceive + n)
                \/ /\ parseLine'
                   /\ ~StartsWith(dev.lineBuffer, Ciprxget4Prefix)
                   /\ dev' = dev
       /\ lastOp' = "parseCiprxget2" =>
             \/ /\ ~parseLine'
                /\ \E n \in 0..MaxOutstanding :
                      /\ dev.lineBuffer = Append(GrantLine(n), NUL)
                      /\ dev'.bytesToReceive = Wrap16(dev.bytesToReceive - n)
                      /\ dev'.bytesToRead = Wrap16(dev.bytesToRead + n)
                /\ Wrap16(Sum(dev')) = Wrap16(Sum(dev))
             \/ /\ parseLine'
                /\ ~StartsWith(dev.lineBuffer, Ciprxget2Prefix)
                /\ dev' = dev
       /\ lastOp' = "receive" =>
             /\ dev'.bytesToReceive = dev.bytesToReceive
             /\ dev'.bytesToRead = dev.bytesToRead - Taken
             /\ Taken \in {0, dev.bytesToRead}
             /\ readBuffer'.writeHead = (readBuffer.writeHead + Taken) % BUFFER_SIZE
             /\ availableData(readBuffer') =
                   Min(availableData(readBuffer) + Taken, BUFFER_SIZE)
       /\ lastOp' = "flushReadBuffer" =>
             /\ dev'.bytesToReceive = 0
             /\ dev'.bytesToRead = dev.bytesToRead - Taken
             /\ Taken = Min(dev.bytesToRead, Len(serialRx))
             /\ readBuffer' = readBuffer]_vars

\* C8 witness: flushReadBuffer() has run while the modem still holds bytes it
\* announced, every announcement has been parsed, and bytesToReceive is zero:
\* announced bytes left the counter without being delivered.
C8_Witness ==
    /\ lastOp = "flushReadBuffer"
    /\ modem.unread > 0
    /\ serialRx = <<>>
    /\ serialTx = <<>>
    /\ ~parseLine
    /\ dev.bytesToReceive = 0
    /\ dev.bytesToRead = 0

\* the complete lines the modem sends, as the line reader yields them
ModemLines ==
    {Append(AnnounceLine(n), NUL) : n \in 1..MaxAnnounce}
    \cup {Append(GrantLine(n), NUL) : n \in 0..ModemMaxReceiveSize}

AppWrite(data) ==
    /\ writeBuffer' = push(writeBuffer, data)
    /\ lastOp' = "write"
    /\ UNCHANGED <<ringVars, dev, serialRx, serialTx, readBuffer, parseLine, burst,
                   modem, last>>

PrepareSending ==
    LET res == prepareSending(dev, serialTx, writeBuffer)
    IN  /\ burst = "idle"
        /\ dev' = res[1]
        /\ serialTx' = res[2]
        /\ burst' = IF res[3] THEN "prepared" ELSE "idle"
        /\ lastOp' = "prepareSending"
        /\ UNCHANGED <<ringVars, serialRx, readBuffer, writeBuffer, parseLine, modem, last>>

SendData ==
    LET res == sendData(dev, serialTx, writeBuffer)
    IN  /\ burst = "prepared"
        /\ dev' = res[1]
        /\ serialTx' = res[2]
        /\ writeBuffer' = res[3]
        /\ burst' = "idle"
        /\ lastOp' = "sendData"
        /\ UNCHANGED <<ringVars, serialRx, readBuffer, parseLine, modem, last>>

\* the UART sends what the engine queued
TxDrain ==
    /\ serialTx # <<>>
    /\ serialTx' = <<>>
    /\ lastOp' = "environment"
    /\ UNCHANGED <<ringVars, dev, serialRx, readBuffer, writeBuffer, parseLine, burst,
                   modem, last>>

NextSend ==
    \/ ResetStates
    \/ \E data \in SeqsUpTo(Data, MaxPushLen) \ {<<>>} : AppWrite(data)
    \/ PrepareSending
    \/ SendData
    \/ TxDrain

SpecSend == Init /\ [][NextSend]_vars

\* C9 (bytesToWrite invariant): bytesToWrite is zero in every state between
\* CIPSEND bursts: after resetStates() and from the return of sendData() (a
\* burst of size 0 included) until the next prepareSending() that starts a
\* burst.
C9_ZeroBetweenBursts ==
    burst = "idle" => dev.bytesToWrite = 0

(***************************************************************************)
(* SpecLock: the application's raw access to the UART.  serialLock(),      *)
(* serialUnlock(), serialWrite() and serialRead() are called at any time.  *)
(* The engine runs one CIPSEND exchange after the other: prepareSending()  *)
(* waits for the prompt, the prompt clears waitForReply and advances       *)
(* replyState, sendData() follows, and the end of the exchange returns     *)
(* replyState to 0.  The engine's tick does nothing while SERIAL_LOCKED is *)
(* set.  The application writes while at most MaxPending bytes wait in the *)
(* transmit queue; the modem sends prompts.                                *)
(***************************************************************************)
\* the test serialLock() refuses the lock on
\* (lockRefused_WaitOnly, lockRefused_ReplyOnly: variants that test one half)
lockRefused_WaitOnly(d) == d.waitForReply # "NULL"
lockRefused_ReplyOnly(d) == d.replyState # 0
lockRefused(d) == d.waitForReply # "NULL" \/ d.replyState # 0

\* bool serialLock(): <<dev, return value>>
serialLock(d) ==
    IF lockRefused(d)
    THEN <<d, FALSE>>
    ELSE <<[d EXCEPT !.stateBooleans = d.stateBooleans \cup {"SERIAL_LOCKED"}], TRUE>>

\* void serialUnlock()
serialUnlock(d) == [d EXCEPT !.stateBooleans = d.stateBooleans \ {"SERIAL_LOCKED"}]

\* Size SimCommDevice::serialWrite(char* data): <<serialTx, return value>>
lockedWrite(d, tx, data) ==
    IF "SERIAL_LOCKED" \in d.stateBooleans
    THEN <<serialWrite(tx, data), Len(serialWrite(tx, data)) - Len(tx)>>
    ELSE <<tx, 0>>

\* Size SimCommDevice::serialRead(char* data, Size maxSize):
\* <<serialRx, bytes stored in data>>, the return value is their number
lockedRead(d, rx, maxSize) ==
    IF "SERIAL_LOCKED" \in d.stateBooleans
    THEN <<SubSeq(rx, Min(maxSize, Len(rx)) + 1, Len(rx)), SubSeq(rx, 1, Min(maxSize, Len(rx)))>>
    ELSE <<rx, <<>>>>

Locked == "SERIAL_LOCKED" \in dev.stateBooleans

\* what the application hands to serialWrite()
RawData == {<<Asc["a"]>>, <<Asc["a"], Asc["a"]>>}

SerialLock ==
    /\ dev' = serialLock(dev)[1]
    /\ lastOp' = "serialLock"
    /\ last' = [pre |-> dev, preRx |-> serialRx, preTx |-> serialTx,
                ret |-> serialLock(dev)[2]]
    /\ UNCHANGED <<ringVars, serialRx, serialTx, readBuffer, writeBuffer, parseLine,
                   burst, modem>>

SerialUnlock ==
    /\ dev' = serialUnlock(dev)
    /\ lastOp' = "serialUnlock"
    /\ last' = [pre |-> dev, preRx |-> serialRx, preTx |-> serialTx]
    /\ UNCHANGED <<ringVars, serialRx, serialTx, readBuffer, writeBuffer, parseLine,
                   burst, modem>>

SerialWrite(data) ==
    /\ Len(serialTx) <= MaxPending
    /\ serialTx' = lockedWrite(dev, serialTx, data)[1]
    /\ lastOp' = "serialWrite"
    /\ last' = [pre |-> dev, preRx |-> serialRx, preTx |-> serialTx,
                data |-> data, ret |-> lockedWrite(dev, serialTx, data)[2]]
    /\ UNCHANGED <<ringVars, dev, serialRx, readBuffer, writeBuffer, parseLine, burst, modem>>

SerialRead(maxSize) ==
    /\ serialRx' = lockedRead(dev, serialRx, maxSize)[1]
    /\ lastOp' = "serialRead"
    /\ last' = [pre |-> dev, preRx |-> serialRx, preTx |-> serialTx,
                maxSize |-> maxSize, data |-> lockedRead(dev, serialRx, maxSize)[2],
                ret |-> Len(lockedRead(dev, serialRx, maxSize)[2])]
    /\ UNCHANGED <<ringVars, dev, serialTx, readBuffer, writeBuffer, parseLine, burst, modem>>

\* run() starts a CIPSEND exchange
TickPrepareSending ==
    /\ ~Locked
    /\ dev.replyState = 0
    /\ PrepareSending

\* run() finds the prompt it waits for: waitForReply is cleared, replyState advances
TickPrompt ==
    /\ ~Locked
    /\ dev.waitForReply = ">"
    /\ dev' = [dev EXCEPT !.waitForReply = "NULL", !.replyState = dev.replyState + 1]
    /\ lastOp' = "prompt"
    /\ UNCHANGED <<ringVars, serialRx, serialTx, readBuffer, writeBuffer, parseLine,
                   burst, modem, last>>

\* run() shovels the payload once the prompt has been seen
TickSendData ==
    /\ ~Locked
    /\ dev.waitForReply = "NULL"
    /\ SendData

\* run() sees the end of the exchange: replyState returns to 0
TickDone ==
    /\ ~Locked
    /\ burst = "idle"
    /\ dev.replyState # 0
    /\ dev' = [dev EXCEPT !.replyState = 0]
    /\ lastOp' = "done"
    /\ UNCHANGED <<ringVars, serialRx, serialTx, readBuffer, writeBuffer, parseLine,
                   burst, modem, last>>

\* the engine is reset by run(), which does nothing while the UART is locked
TickReset ==
    /\ ~Locked
    /\ ResetStates

NextLock ==
    \/ SerialLock
    \/ SerialUnlock
    \/ \E data \in RawData : SerialWrite(data)
    \/ \E maxSize \in 0..MaxPending : SerialRead(maxSize)
    \/ UartRx(GT)
    \/ TxDrain
    \/ TickPrepareSending
    \/ TickPrompt
    \/ TickSendData
    \/ TickDone
    \/ TickReset

SpecLock == Init /\ [][NextLock]_vars

\* C11 (serialLock gating): serialLock() called with waitForReply non-null or
\* replyState nonzero returns false and changes nothing; called with both
\* clear it returns true and sets SERIAL_LOCKED, changing nothing else.
\* serialWrite() and serialRead() called without SERIAL_LOCKED return 0 and
\* leave the UART queues as they were; with SERIAL_LOCKED they hand the data
\* to the transmit queue, or take up to maxSize bytes from the receive
\* queue, and return the number of bytes moved.  None of the three changes
\* the engine state otherwise.
C11_SerialLockGating ==
    /\ lastOp = "serialLock" =>
          /\ serialRx = last.preRx /\ serialTx = last.preTx
          /\ (last.pre.waitForReply # "NULL" \/ last.pre.replyState # 0) =>
                (~last.ret /\ dev = last.pre)
          /\ (last.pre.waitForReply = "NULL" /\ last.pre.replyState = 0) =>
                /\ last.ret
                /\ dev = [last.pre EXCEPT !.stateBooleans =
                                              last.pre.stateBooleans \cup {"SERIAL_LOCKED"}]
    /\ lastOp = "serialWrite" =>
          /\ dev = last.pre /\ serialRx = last.preRx
          /\ "SERIAL_LOCKED" \notin last.pre.stateBooleans =>
                (last.ret = 0 /\ serialTx = last.preTx)
          /\ "SERIAL_LOCKED" \in last.pre.stateBooleans =>
                /\ last.ret = Min(Len(last.data), SERIAL_TX_SIZE - Len(last.preTx))
                /\ serialTx = last.preTx \o SubSeq(last.data, 1, last.ret)
    /\ lastOp = "serialRead" =>
          /\ dev = last.pre /\ serialTx = last.preTx
          /\ "SERIAL_LOCKED" \notin last.pre.stateBooleans =>
                (last.ret = 0 /\ serialRx = last.preRx)
          /\ "SERIAL_LOCKED" \in last.pre.stateBooleans =>
                /\ last.ret = Min(last.maxSize, Len(last.preRx))
                /\ last.preRx = last.data \o serialRx
                /\ Len(last.data) = last.ret

\* C11 witness: a lock was refused although waitForReply was null, because
\* replyState was not 0; the bytes meanwhile queued by the UART stay unread.
C11_Witness ==
    /\ lastOp = "serialLock"
    /\ ~last.ret
    /\ last.pre.waitForReply = "NULL"
    /\ last.pre.replyState # 0
    /\ serialRx # <<>>
    /\ ~Locked

Hosts == {Str(<<"h">>), Str(<<"h", "o">>)}

\* the text of AT+CDNSGIP="<host>"\r\n
DnsQueryCommand(host) ==
    Str(<<"A", "T", "+", "C", "D", "N", "S", "G", "I", "P", "=", "\"">>)
    \o host \o <<QUOTE>> \o CrLf

\* bool sendDnsQuery(): <<serialTx, return value>>
sendDnsQuery(tx, host) ==
    IF SERIAL_TX_SIZE - Len(tx) < Len(host) + 20
    THEN <<tx, FALSE>>
    ELSE LET t1 == serialWrite(tx, Str(<<"A", "T", "+", "C", "D", "N", "S", "G", "I",
                                         "P", "=", "\"">>))
             t2 == serialWrite(t1, host)
         IN  <<serialWrite(t2, <<QUOTE>> \o CrLf), TRUE>>

SendDnsQuery(host) ==
    /\ serialTx' = sendDnsQuery(serialTx, host)[1]
    /\ lastOp' = "sendDnsQuery"
    /\ last' = [pre |-> NewDev, ret |-> sendDnsQuery(serialTx, host)[2]]
    /\ UNCHANGED <<ringVars, dev, serialRx, readBuffer, writeBuffer, parseLine, burst, modem>>

\* sendCiprxget2() called whatever the transmit queue holds
RequestWindow ==
    LET res == sendCiprxget2(dev, serialRx, serialTx, readBuffer)
    IN  /\ serialTx' = res[1]
        /\ lastOp' = "sendCiprxget2"
        /\ last' = [pre |-> NewDev, ret |-> res[2]]
        /\ UNCHANGED <<ringVars, dev, serialRx, readBuffer, writeBuffer, parseLine,
                       burst, modem>>

NextEmit ==
    \/ NextSend
    \/ \E host \in Hosts : SendDnsQuery(host)
    \/ RequestWindow

SpecEmit == Init /\ [][NextEmit]_vars

\* the complete commands the three emitters write
CipsendCommand(n) ==
    Str(<<"A", "T", "+", "C", "I", "P", "S", "E", "N", "D", "=", "0", ",">>) \o toDecimal(n)

CiprxgetCommand(g) ==
    Str(<<"A", "T", "+", "C", "I", "P", "R", "X", "G", "E", "T", "=", "2", ",", "0", ",">>)
    \o toDecimal(g) \o CrLf

EmitterCommands ==
    [sendDnsQuery |-> {DnsQueryCommand(h) : h \in Hosts},
     prepareSending |-> {CipsendCommand(n) : n \in 0..BUFFER_SIZE},
     sendCiprxget2 |-> {CiprxgetCommand(g) : g \in 0..ModemMaxReceiveSize}]

\* the value the emitter of the step returned
EmitterReturned ==
    IF lastOp' = "prepareSending" THEN burst' = "prepared" ELSE last'.ret

\* C13 (emitters check the TX space): a step of sendDnsQuery, prepareSending
\* or sendCiprxget2 that returns false writes no byte and changes no engine
\* state; one that returns true appends one complete command to the transmit
\* queue: no command is ever partially emitted.
C13_EmittersNeverPartial ==
    [][lastOp' \in DOMAIN EmitterCommands =>
          IF EmitterReturned
          THEN \E cmd \in EmitterCommands[lastOp'] : serialTx' = serialTx \o cmd
          ELSE serialTx' = serialTx /\ dev' = dev]_vars

(***************************************************************************)
(* SpecData: the two data streams, with payload bytes that can be told     *)
(* apart.  run() asks for a window only when nothing is in flight: both    *)
(* UART queues are empty, no line waits to be parsed and no granted window *)
(* is outstanding; it starts a CIPSEND burst only while the UART is idle   *)
(* in both directions.  The modem answers a request that has reached it.   *)
(* A session carries payload in one direction: the peer sends only while   *)
(* the application has not written, the application writes only while      *)
(* nothing has been received; the application reads at any time.           *)
(***************************************************************************)
\* run() asks for the next window
TickRequest ==
    /\ serialRx = <<>>
    /\ ~parseLine
    /\ "LINE_READ" \in dev.stateBooleans
    /\ dev.bytesToRead = 0
    /\ dev.bytesToReceive > 0
    /\ burst = "idle"
    /\ SendCiprxget2

\* the transmit queue begins with a request for a window
RequestQueued ==
    /\ Len(serialTx) > 16
    /\ SubSeq(serialTx, 1, 16) = SubSeq(CiprxgetCommand(0), 1, 16)

\* the modem answers a request for a window
RequestGrant(n) ==
    /\ RequestQueued
    /\ ModemGrant(n)

\* nothing has been received and nothing is on its way in
RxQuiet ==
    /\ readBuffer = NewRing
    /\ modem = NoModem
    /\ serialRx = <<>>
    /\ ~parseLine
    /\ dev.bytesToReceive = 0
    /\ dev.bytesToRead = 0
    /\ ~RequestQueued

\* nothing has been written and nothing is on its way out
TxQuiet ==
    /\ writeBuffer = NewRing
    /\ serialTx = <<>>
    /\ burst = "idle"

\* the peer sends while the application has not written
DataAnnounce(n) ==
    /\ TxQuiet
    /\ ModemAnnounce(n)

\* the application writes while nothing has come in
DataWrite(data) ==
    /\ RxQuiet
    /\ AppWrite(data)

\* run() starts a CIPSEND burst
TickBurst ==
    /\ RxQuiet
    /\ serialTx = <<>>
    /\ "LINE_READ" \in dev.stateBooleans
    /\ ~isEmpty(writeBuffer)
    /\ PrepareSending

\* the UART sends the burst
BurstDrain ==
    /\ burst = "idle"
    /\ ~RequestQueued
    /\ TxDrain

NextData ==
    \/ ResetStates
    \/ \E n \in 1..MaxAnnounce : DataAnnounce(n)
    \/ \E n \in 0..ModemMaxReceiveSize : RequestGrant(n)
    \/ \E x \in Data : ModemPayload(x)
    \/ ReadLine
    \/ ParseCiprxget4
    \/ ParseCiprxget2
    \/ FlushReadBuffer
    \/ Receive
    \/ TickRequest
    \/ \E size \in 1..BUFFER_SIZE : AppRead(size)
    \/ \E data \in SeqsUpTo(Data, MaxPushLen) \ {<<>>} : DataWrite(data)
    \/ TickBurst
    \/ SendData
    \/ BurstDrain

SpecData == Init /\ [][NextData]_vars

\* the elements of s after the first n
Drop(s, n) == SubSeq(s, n + 1, Len(s))

\* C14 (write side): what the application writes is appended behind what the
\* write ring holds, and sendData() moves the first bytesToWrite bytes of the
\* ring, oldest first, to the end of the transmit queue; nothing else changes
\* what the write ring holds, except resetStates(), which empties it.
WriteStreamFifo ==
    /\ lastOp' = "write" =>
          \E data \in SeqsUpTo(Data, MaxPushLen) :
              Contents(writeBuffer') = Contents(writeBuffer) \o data
    /\ lastOp' = "sendData" =>
          /\ dev.bytesToWrite <= availableData(writeBuffer)
          /\ serialTx' = serialTx \o SubSeq(Contents(writeBuffer), 1, dev.bytesToWrite)
          /\ Contents(writeBuffer') = Drop(Contents(writeBuffer), dev.bytesToWrite)
    /\ lastOp' = "resetStates" => Contents(writeBuffer') = <<>>
    /\ lastOp' \notin {"write", "sendData", "resetStates"} =>
          Contents(writeBuffer') = Contents(writeBuffer)

\* C14 (read side): receive() appends the bytesToRead bytes it takes from the
\* head of the receive queue, in their order, behind what the read ring
\* holds; the application pulls from the front of the ring, oldest first;
\* nothing else changes what the read ring holds, except resetStates().
ReadStreamFifo ==
    /\ lastOp' = "receive" =>
          IF Len(serialRx) >= dev.bytesToRead
          THEN /\ Contents(readBuffer') =
                      Contents(readBuffer) \o SubSeq(serialRx, 1, dev.bytesToRead)
               /\ serialRx' = Drop(serialRx, dev.bytesToRead)
          ELSE /\ Contents(readBuffer') = Contents(readBuffer)
               /\ serialRx' = serialRx
    /\ lastOp' = "environment" /\ readBuffer' # readBuffer =>
          \E size \in 1..BUFFER_SIZE :
              /\ readBuffer' = pull(readBuffer, size)[1]
              /\ pull(readBuffer, size)[2] =
                     SubSeq(Contents(readBuffer), 1, Len(pull(readBuffer, size)[2]))
              /\ Contents(readBuffer') =
                     Drop(Contents(readBuffer), Len(pull(readBuffer, size)[2]))
    /\ lastOp' = "resetStates" => Contents(readBuffer') = <<>>
    /\ lastOp' \notin {"receive", "environment", "resetStates"} =>
          Contents(readBuffer') = Contents(readBuffer)

\* C14: both data streams are first-in first-out: the bytes sendData() writes
\* to the UART are the bytes the application pushed into the write ring, in
\* their order, and the bytes the application pulls from the read ring are
\* the bytes receive() took from the UART, in their order.
C14_FifoStreams == [][WriteStreamFifo /\ ReadStreamFifo]_vars

\* receive() has stored a window behind an older byte in a ring that wraps
C14_Witness ==
    /\ lastOp = "receive"
    /\ Contents(readBuffer) = <<1, 2, 1>>
    /\ readBuffer.readHead > 0

(***************************************************************************)
(* SpecReset: resetStates() called at any point of a session.  The         *)
(* application connects, disconnects, asks for the signal strength and for *)
(* an identity string, writes and reads; run() picks up the pending        *)
(* connect and disconnect, and moves payload as in SpecData.               *)
(***************************************************************************)
\* bool handleDisconnect(int8_t nextState): <<dev, return value>>
handleDisconnect(d, nextState) ==
    IF "DISCONNECT_PENDING" \in d.stateBooleans
    THEN <<[d EXCEPT !.stateBooleans = d.stateBooleans \ {"DISCONNECT_PENDING"},
                     !.sendState = nextState], TRUE>>
    ELSE <<d, FALSE>>

\* bool handleConnect(int8_t nextState): <<dev, return value>>
handleConnect(d, nextState) ==
    IF "CONNECT_PENDING" \in d.stateBooleans
    THEN <<[d EXCEPT !.stateBooleans = d.stateBooleans \ {"CONNECT_PENDING"},
                     !.sendState = nextState], TRUE>>
    ELSE <<d, FALSE>>

\* void requestRSSI(): the sentinel UINT8_MAX
requestRSSI(d) == [d EXCEPT !.rssi = 255]

\* void requestIDString(RequestIDType type)
requestIDString(d, type) == [d EXCEPT !.idString0 = 0, !.idString1 = type]

\* an application call or a step of run() that changes members of the device only
DevStep(d, op) ==
    /\ dev' = d
    /\ lastOp' = op
    /\ UNCHANGED <<ringVars, serialRx, serialTx, readBuffer, writeBuffer, parseLine,
                   burst, modem, last>>

\* connect(): flips CONNECT_PENDING, the phase becomes connecting
Connect ==
    /\ dev.connectState = "notConnected"
    /\ DevStep([dev EXCEPT !.stateBooleans = dev.stateBooleans \cup {"CONNECT_PENDING"},
                           !.connectState = "connecting"], "connect")

\* disconnect(): sets DISCONNECT_PENDING
Disconnect ==
    /\ dev.connectState = "connected"
    /\ DevStep([dev EXCEPT !.stateBooleans = dev.stateBooleans \cup {"DISCONNECT_PENDING"}],
               "disconnect")

HandleConnect(nextState) ==
    /\ handleConnect(dev, nextState)[2]
    /\ DevStep(handleConnect(dev, nextState)[1], "handleConnect")

HandleDisconnect(nextState) ==
    /\ handleDisconnect(dev, nextState)[2]
    /\ DevStep(handleDisconnect(dev, nextState)[1], "handleDisconnect")

\* run() has opened the socket
SocketOpen ==
    /\ dev.connectState = "connecting"
    /\ dev.sendState # 0
    /\ DevStep([dev EXCEPT !.stateBooleans = dev.stateBooleans \cup {"IP_CONNECTED"},
                           !.connectState = "connected"], "socketOpen")

RequestRSSI == DevStep(requestRSSI(dev), "requestRSSI")

RequestIDString(type) == DevStep(requestIDString(dev, type), "requestIDString")

\* the application takes and returns the UART
SessionLock == DevStep(serialLock(dev)[1], "serialLock")

SessionUnlock ==
    /\ Locked
    /\ DevStep(serialUnlock(dev), "serialUnlock")

\* the peer sends one byte over the open socket
SessionAnnounce ==
    /\ dev.connectState = "connected"
    /\ DataAnnounce(1)

\* the application writes one byte to the open socket
SessionWrite ==
    /\ dev.connectState = "connected"
    /\ DataWrite(<<1>>)

\* run() starts a CIPSEND exchange
SessionBurst ==
    /\ RxQuiet
    /\ ~isEmpty(writeBuffer)
    /\ serialTx = <<>>
    /\ TickPrepareSending

NextReset ==
    \/ ResetStates
    \/ Connect
    \/ Disconnect
    \/ HandleConnect(1)
    \/ HandleDisconnect(0)
    \/ SocketOpen
    \/ RequestRSSI
    \/ RequestIDString("imei")
    \/ SessionLock
    \/ SessionUnlock
    \/ SessionAnnounce
    \/ RequestGrant(1)
    \/ ModemPayload(1)
    \/ ReadLine
    \/ ParseCiprxget4
    \/ ParseCiprxget2
    \/ Receive
    \/ TickRequest
    \/ AppRead(1)
    \/ SessionWrite
    \/ SessionBurst
    \/ TickPrompt
    \/ TickSendData
    \/ TickDone
    \/ BurstDrain

SpecReset == Init /\ [][NextReset]_vars

\* C15: resetStates(), in whatever state it is called, leaves sendState and
\* replyState 0, the phase notConnected, bytesToWrite, bytesToReceive and
\* bytesToRead 0, waitForReply null, the line fill cursor 0, LINE_READ the
\* only flag set, the RSSI 99, no identity request pending, both application
\* rings empty and the receive queue of the UART flushed: the state after
\* construction, up to the bytes left in _lineBuffer, _ip and the ring cells.
C15_ResetStates ==
    lastOp = "resetStates" =>
        /\ dev.sendState = 0
        /\ dev.replyState = 0
        /\ dev.connectState = "notConnected"
        /\ dev.bytesToWrite = 0
        /\ dev.bytesToReceive = 0
        /\ dev.bytesToRead = 0
        /\ dev.waitForReply = "NULL"
        /\ dev.lbFill = 0
        /\ dev.stateBooleans = {"LINE_READ"}
        /\ dev.rssi = 99
        /\ dev.idString0 = 0
        /\ dev.idString1 = "noRequest"
        /\ [dev EXCEPT !.lineBuffer = <<>>, !.ip = <<>>] = NewDev
        /\ isEmpty(readBuffer) /\ Contents(readBuffer) = <<>>
        /\ isEmpty(writeBuffer) /\ Contents(writeBuffer) = <<>>
        /\ [readBuffer EXCEPT !.buffer = NewRing.buffer] = NewRing
        /\ [writeBuffer EXCEPT !.buffer = NewRing.buffer] = NewRing
        /\ serialRx = <<>>

\* resetStates() has run in a session that had received payload (the byte is
\* still in a cell of the read ring) while a command was in the transmit queue
C15_Witness ==
    /\ lastOp = "resetStates"
    /\ \E i \in DOMAIN readBuffer.buffer : readBuffer.buffer[i] = 1
    /\ dev.lineBuffer # <<>>
    /\ serialTx # <<>>

\* the cells of ring r that hold bytes not yet read
Unread(r) == {(r.readHead + i) % BUFFER_SIZE : i \in 0..(r.availableData - 1)}

\* C16: the receive path never overwrites a byte the application has not
\* read: when the window receive() is about to store is larger than the free
\* space of the read ring, the bytes that do not fit are read from the UART
\* and discarded instead of stored, so that no cell holding an unread byte is
\* written and the ring holds what it held before, oldest first, followed by
\* the bytes that fitted.
C16_NoUnreadOverwritten ==
    [][lastOp' = "receive" /\ Len(serialRx) >= dev.bytesToRead =>
          LET stored == Min(dev.bytesToRead, availableSpace(readBuffer))
          IN  /\ serialRx' = Drop(serialRx, dev.bytesToRead)
              /\ readBuffer'.writeHead = (readBuffer.writeHead + stored) % BUFFER_SIZE
              /\ readBuffer'.readHead = readBuffer.readHead
              /\ availableData(readBuffer') = availableData(readBuffer) + stored
              /\ \A i \in Unread(readBuffer) : readBuffer'.buffer[i] = readBuffer.buffer[i]
              /\ Contents(readBuffer') =
                     Contents(readBuffer) \o SubSeq(serialRx, 1, stored)]_vars

\* C17: prepareSending() called with less than 22 bytes free in the transmit
\* queue returns false and changes nothing; otherwise it sets bytesToWrite to
\* min(bytes in the write ring, free - 22), queues the CIPSEND command with
\* that number, sets waitForReply to ">" and returns true, changing nothing
\* else.  The sendData() that follows pulls exactly bytesToWrite bytes: no
\* more than the write ring holds, and all of them find room in the
\* transmit queue.
C17_PrepareSending ==
    [][/\ lastOp' = "prepareSending" =>
             LET free == SERIAL_TX_SIZE - Len(serialTx)
                 n == Min(availableData(writeBuffer), free - 22)
             IN  IF free < 22
                 THEN /\ burst' = "idle"
                      /\ dev' = dev
                      /\ serialTx' = serialTx
                 ELSE /\ burst' = "prepared"
                      /\ dev' = [dev EXCEPT !.bytesToWrite = n, !.waitForReply = ">"]
                      /\ serialTx' = serialTx \o CipsendCommand(n)
       /\ lastOp' = "sendData" =>
             /\ dev.bytesToWrite <= availableData(writeBuffer)
             /\ availableData(writeBuffer') = availableData(writeBuffer) - dev.bytesToWrite
             /\ Len(serialTx) + dev.bytesToWrite <= SERIAL_TX_SIZE
             /\ Len(serialTx') = Len(serialTx) + dev.bytesToWrite]_vars

\* a burst of two bytes has been sent from a write ring that held three:
\* the command and the payload are in the transmit queue, one byte is left
C17_Witness ==
    /\ lastOp = "sendData"
    /\ availableData(writeBuffer) = 1
    /\ Len(serialTx) = Len(CipsendCommand(2)) + 2
    /\ SubSeq(serialTx, 1, Len(CipsendCommand(2))) = CipsendCommand(2)

(***************************************************************************)
(* SpecGrant: sendCiprxget2() as a function of the announced bytes, the    *)
(* fill of the read ring and the fill of the receive queue of the UART.    *)
(* A session starts with some bytes announced and some bytes unread in the *)
(* read ring; bytes arrive at the UART one at a time, the application      *)
(* reads, and each request leaves the transmit queue before the next.      *)
(***************************************************************************)
InitGrant ==
    /\ RingIdle
    /\ \E n \in 0..(ModemMaxReceiveSize + 1) :
          dev = [NewDev EXCEPT !.bytesToReceive = n]
    /\ \E data \in SeqsUpTo({LF}, BUFFER_SIZE) : readBuffer = push(NewRing, data)
    /\ serialRx = <<>>
    /\ serialTx = <<>>
    /\ writeBuffer = NewRing
    /\ parseLine = FALSE
    /\ burst = "idle"
    /\ modem = NoModem
    /\ lastOp = "init"
    /\ last = [pre |-> NewDev]

\* the UART interrupt queues one received byte
RxArrives ==
    /\ Len(serialRx) < SERIAL_RX_SIZE
    /\ serialRx' = Append(serialRx, LF)
    /\ lastOp' = "environment"
    /\ UNCHANGED <<ringVars, dev, serialTx, readBuffer, writeBuffer, parseLine, burst,
                   modem, last>>

NextGrant ==
    \/ RxArrives
    \/ SendCiprxget2
    \/ TxDrain
    \/ AppRead(1)

SpecGrant == InitGrant /\ [][NextGrant]_vars

\* the free part of the receive queue of the UART
UartRxFree == SERIAL_RX_SIZE - Len(serialRx)

\* C18: sendCiprxget2() returns true and queues AT+CIPRXGET=2,0,<g> with
\* g = min(bytesToReceive, free space of the read ring, uartRxFree - 8,
\* modemMaxReceiveSize) when uartRxFree > 8 and the read ring has free space;
\* otherwise it returns false and writes nothing.  It changes no member.
\* Hence g <= bytesToReceive, g <= free space of the read ring and
\* g + 8 <= uartRxFree for every request it emits.
C18_GrantRequest ==
    [][lastOp' = "sendCiprxget2" =>
          LET space == availableSpace(readBuffer)
              g == Min(Min(dev.bytesToReceive, space),
                       Min(UartRxFree - 8, ModemMaxReceiveSize))
              ret == sendCiprxget2(dev, serialRx, serialTx, readBuffer)[2]
          IN  /\ ret <=> (UartRxFree > 8 /\ space > 0)
              /\ dev' = dev /\ readBuffer' = readBuffer /\ serialRx' = serialRx
              /\ IF ret
                 THEN /\ serialTx' = serialTx \o CiprxgetCommand(g)
                      /\ g <= dev.bytesToReceive
                      /\ g <= space
                      /\ g + 8 <= UartRxFree
                 ELSE serialTx' = serialTx]_vars

\* a request has been emitted whose size is what the receive queue of the
\* UART can take beyond the 8 bytes of slack, less than what is announced
\* and less than what the read ring could take
C18_Witness ==
    /\ lastOp = "sendCiprxget2"
    /\ UartRxFree > 8
    /\ UartRxFree - 8 < dev.bytesToReceive
    /\ UartRxFree - 8 < availableSpace(readBuffer)
    /\ serialTx = CiprxgetCommand(UartRxFree - 8)

(***************************************************************************)
(* SpecLive: the receive path of SpecData under fairness.  The modem       *)
(* delivers every payload byte it owes as long as the receive queue of the *)
(* UART has room, and run() keeps calling receive(); nothing is assumed of *)
(* the application, of the peer or of the rest of run().                   *)
(***************************************************************************)
NextLive ==
    \/ \E n \in 1..MaxAnnounce : DataAnnounce(n)
    \/ \E n \in 0..ModemMaxReceiveSize : RequestGrant(n)
    \/ \E x \in Data : ModemPayload(x)
    \/ ReadLine
    \/ ParseCiprxget4
    \/ ParseCiprxget2
    \/ Receive
    \/ TickRequest
    \/ \E size \in 1..BUFFER_SIZE : AppRead(size)

Fairness ==
    /\ WF_vars(\E x \in Data : ModemPayload(x))
    /\ WF_vars(Receive)

SpecLive == Init /\ [][NextLive]_vars /\ Fairness

\* the engine is in binary-receive mode with a window to fetch
BinaryReceive == dev.bytesToRead > 0 /\ "LINE_READ" \notin dev.stateBooleans

C20_RingStructure ==
    /\ ring.availableData \in 0..BUFFER_SIZE
    /\ ring.writeHead \in 0..(BUFFER_SIZE - 1)
    /\ ring.readHead \in 0..(BUFFER_SIZE - 1)
    /\ ring.writeHead = (ring.readHead + ring.availableData) % BUFFER_SIZE

\* C21: bytesToReceive never wraps below zero: with a modem that grants at
\* most the size of the last request, whenever parseCiprxget2() accepts
\* "+CIPRXGET: 2,0,N" the counter is at least N beforehand, whatever
\* parseCiprxget4(), flushReadBuffer() and resetStates() did between the
\* request and its reply, so that the 16-bit subtraction does not underflow.
C21_NoUnderflow ==
    [][lastOp' = "parseCiprxget2" /\ StartsWith(dev.lineBuffer, Ciprxget2Prefix) =>
          \A n \in scanned(dev.lineBuffer, Ciprxget2Prefix) :
              /\ n <= dev.bytesToReceive
              /\ dev'.bytesToReceive = dev.bytesToReceive - n]_vars

=============================================================================
